---- MODULE Spec2Model ----
(***************************************************************************)
(* Model of src/suunto_exercise_data.py: class exercise_data.              *)
(*                                                                         *)
(* The constructor reads a recording (a JSON document whose "Samples"      *)
(* array holds the events of a Suunto watch), classifies the events,       *)
(* rebuilds the time axis of the heart beats from the interbeat intervals  *)
(* (IBI), aligns barometric, GPS and IBI data in one table keyed by the    *)
(* rounded second, and then filters and smooths the IBI series.            *)
(*                                                                         *)
(* Units.  Interval values and timestamps are integers counting 1/Scale of *)
(* a millisecond, so that both default thresholds of filter_ibi, 60000/25  *)
(* ms and 60000/220 ms, are integers of the model.  A missing value        *)
(* (np.nan) is the integer NaN, which is no interval: every comparison     *)
(* with it is guarded and false, as in IEEE arithmetic.  Positions in      *)
(* sequences are counted from 1 (Python counts from 0).                    *)
(***************************************************************************)
EXTENDS Integers, Sequences, FiniteSets, TLC

VARIABLES
    json_file,          \* the content of the file: the "Samples" array
    mode,               \* self.mode
    pc,                 \* position in __init__ / parse_json
    error,              \* the exception that ended the constructor, or "none"
    exercise_raw_data,  \* self.exercise_raw_data: "unset", "text", "samples", "document"
    ibi_time,           \* timestamps of the R-R events, in file order
    ibi_values,         \* their interval lists
    baro_data,          \* indices of the events stored as barometric samples
    gps_data,           \* indices of the events stored as GPS samples
    processed_samples,  \* the list processed_samples (an index may repeat)
    ibi_timeindex,      \* the beat timestamps before rounding
    ibi_1d,             \* self.ibi_1d: [index, values]
    index_array,        \* the slot of each beat
    duplicate_indices,  \* the mask multi_index.duplicated(keep='first')
    iterations,         \* passes of the while loop made so far
    ibi,                \* the frame ibi after unstack(): [index, columns, cells]
    exercise_data,      \* self.exercise_data: [columns, rows]
    unparsed_lines,     \* self.unparsed_lines
    unparsed_data,      \* self.unparsed_data (indices of the events kept)
    spike_filtered,     \* ibi_1d_processed as filtering() returned it
    ibi_1d_processed    \* self.ibi_1d_processed (values only; its index is ibi_1d's)

vars == <<json_file, mode, pc, error, exercise_raw_data, ibi_time, ibi_values,
          baro_data, gps_data, processed_samples, ibi_timeindex, ibi_1d,
          index_array, duplicate_indices, iterations, ibi, exercise_data,
          unparsed_lines, unparsed_data, spike_filtered, ibi_1d_processed>>

(***************************************************************************)
(* Units and values.                                                       *)
(***************************************************************************)
Scale == 11
NaN == -1
Millisecond == Scale
Second == 1000 * Millisecond

maximum_threshold == (60000 * Millisecond) \div 25
minimum_threshold == (60000 * Millisecond) \div 220

(***************************************************************************)
(* Bounds of the recordings explored.                                      *)
(***************************************************************************)
MaxEvents == 4
MaxBursts == 2
MaxBurstLen == 2
MaxSeries == 2

(***************************************************************************)
(* Sequence helpers.                                                       *)
(***************************************************************************)
RECURSIVE SumSeq(_)
SumSeq(s) == IF s = <<>> THEN 0 ELSE Head(s) + SumSeq(Tail(s))

RECURSIVE Flatten(_)
Flatten(ss) == IF ss = <<>> THEN <<>> ELSE Head(ss) \o Flatten(Tail(ss))

Range(s) == {s[i] : i \in 1..Len(s)}

RECURSIVE SortSet(_)
SortSet(S) ==
    IF S = {} THEN <<>>
    ELSE LET m == CHOOSE x \in S : \A y \in S : x <= y
         IN  <<m>> \o SortSet(S \ {m})

SeqsUpTo(S, n) == UNION {[1..k -> S] : k \in 0..n}
SeqsFromTo(S, lo, n) == UNION {[1..k -> S] : k \in lo..n}

(***************************************************************************)
(* The recordings.                                                         *)
(***************************************************************************)
Times == {Second \div 2, (3 * Second) \div 2}
TypicalIbi == 500 * Millisecond
SpeedValue == 3
CadenceValue == 1

RREvent(t, ibis) ==
    [TimeISO8601 |-> t, sml |-> {"R-R"}, IBI |-> ibis, Sample |-> {},
     Speed |-> NaN, Cadence |-> NaN]
SampleEvent(t, fields) ==
    [TimeISO8601 |-> t, sml |-> {"Sample"}, IBI |-> <<>>, Sample |-> fields,
     Speed |-> IF "Speed" \in fields THEN SpeedValue ELSE NaN,
     Cadence |-> IF "Cadence" \in fields THEN CadenceValue ELSE NaN]
OtherEvent(t) ==
    [TimeISO8601 |-> t, sml |-> {}, IBI |-> <<>>, Sample |-> {},
     Speed |-> NaN, Cadence |-> NaN]

SampleFields == {{"AbsPressure"}, {"AbsPressure", "Speed", "Cadence"}, {"Latitude"},
                 {"AbsPressure", "Latitude"}}

StreamEvents ==
    {RREvent(t, <<TypicalIbi>>) : t \in Times}
    \cup {SampleEvent(t, f) : t \in Times, f \in SampleFields}
    \cup {OtherEvent(Second \div 2)}

BeatValues == {minimum_threshold, TypicalIbi}
BurstEvents ==
    {RREvent(t, b) : t \in Times, b \in SeqsFromTo(BeatValues, 1, MaxBurstLen)}

ThresholdValues == {minimum_threshold - 1, minimum_threshold, TypicalIbi,
                    maximum_threshold, maximum_threshold + 1}
ThresholdEvents ==
    {RREvent(Second \div 2, b) : b \in SeqsFromTo(ThresholdValues, 1, MaxSeries)}

StreamRecordings == SeqsUpTo(StreamEvents, MaxEvents)
BurstRecordings == SeqsUpTo(BurstEvents, MaxBursts)
\* a burst of intervals around the thresholds, alone or followed by a barometric
\* sample of the same second
ThresholdRecordings ==
    {<<e>> : e \in ThresholdEvents}
    \cup {<<e, SampleEvent(Second \div 2, {"AbsPressure"})>> : e \in ThresholdEvents}

Modes == {"suunto_json", "qs_json", "gpx"}

(***************************************************************************)
(* Timestamps.                                                             *)
(***************************************************************************)
\* DatetimeIndex.round('S'): to the nearest second, halves to the even second
RoundS(t) ==
    LET q == t \div Second
        r == t % Second
    IN  IF 2 * r < Second THEN q
        ELSE IF 2 * r > Second THEN q + 1
        ELSE IF q % 2 = 0 THEN q ELSE q + 1

\* Series.cumsum()
CumSum(s) == [i \in 1..Len(s) |-> SumSeq(SubSeq(s, 1, i))]

(***************************************************************************)
(* Classification of the events (parse_json, the for loop).                *)
(***************************************************************************)
Indices(n) == [i \in 1..n |-> i]

IsIbi(e) == "R-R" \in e.sml
IsBaro(e) == ~IsIbi(e) /\ "Sample" \in e.sml /\ "AbsPressure" \in e.Sample
IsGps(e) == ~IsIbi(e) /\ "Sample" \in e.sml /\ "Latitude" \in e.Sample

\* what one pass of the loop body appends to processed_samples
Consumed(e, i) ==
    IF IsIbi(e) THEN <<i>>
    ELSE (IF IsBaro(e) THEN <<i>> ELSE <<>>) \o (IF IsGps(e) THEN <<i>> ELSE <<>>)

ProcessedSamples(events) ==
    Flatten([i \in 1..Len(events) |-> Consumed(events[i], i)])

IbiIndices(events) == SelectSeq(Indices(Len(events)), LAMBDA i : IsIbi(events[i]))
BaroIndices(events) == SelectSeq(Indices(Len(events)), LAMBDA i : IsBaro(events[i]))
GpsIndices(events) == SelectSeq(Indices(Len(events)), LAMBDA i : IsGps(events[i]))

\* self.exercise_raw_data[self.processed_samples_mask]
UnparsedData(events, processed) ==
    SelectSeq(Indices(Len(events)), LAMBDA i : i \notin Range(processed))

\* len(self.exercise_raw_data) - len(processed_samples)
UnparsedLines(events, processed) == Len(events) - Len(processed)

(***************************************************************************)
(* The beat time axis.                                                     *)
(***************************************************************************)
\* variant: every beat stamped at the start of its interval, not at its end
IbiTimeindexFromStart(times, values) ==
    LET flat == Flatten(values)
        cs == CumSum(flat)
    IN  [i \in 1..Len(cs) |-> times[1] - SumSeq(values[1]) + cs[i] - flat[i]]

\* ibi.index[0] - Timedelta(ibi.iloc[0].sum()) + cumsum of all intervals
IbiTimeindex(times, values) ==
    LET cs == CumSum(Flatten(values))
    IN  [i \in 1..Len(cs) |-> times[1] - SumSeq(values[1]) + cs[i]]

\* variant: duplicated(keep='last')
DuplicatedKeepLast(index, slots) ==
    [i \in 1..Len(index) |->
        \E j \in (i + 1)..Len(index) : index[j] = index[i] /\ slots[j] = slots[i]]

\* MultiIndex.duplicated(keep='first') of the keys (time, slot)
Duplicated(index, slots) ==
    [i \in 1..Len(index) |->
        \E j \in 1..(i - 1) : index[j] = index[i] /\ slots[j] = slots[i]]

\* index_array += duplicate_indices
AddMask(slots, mask) ==
    [i \in 1..Len(slots) |-> slots[i] + (IF mask[i] THEN 1 ELSE 0)]

\* Series.unstack(): one row per time, one column per slot, both sorted
Unstack(index, values) ==
    LET times == SortSet({index[i][1] : i \in 1..Len(index)})
        slots == SortSet({index[i][2] : i \in 1..Len(index)})
        Cell(t, s) ==
            IF \E i \in 1..Len(index) : index[i] = <<t, s>>
            THEN values[CHOOSE i \in 1..Len(index) : index[i] = <<t, s>>]
            ELSE NaN
    IN  [index |-> times,
         columns |-> slots,
         cells |-> [r \in 1..Len(times) |->
                       [c \in 1..Len(slots) |-> Cell(times[r], slots[c])]]]

(***************************************************************************)
(* The aligned table.                                                      *)
(***************************************************************************)
NoCells == <<>>
NoRate == <<NaN, NaN>>

\* DataFrame(baro_data, index=to_datetime(baro_time).round('S'))
BaroFrame(events, baro) ==
    [i \in 1..Len(baro) |->
        [key |-> RoundS(events[baro[i]].TimeISO8601), baro |-> baro[i], gps |-> 0,
         Cadence |-> events[baro[i]].Cadence,
         IBI_raw |-> NoCells, IBI_processed |-> NoCells,
         heart_rate_raw |-> NoRate, heart_rate_filtered |-> NoRate, Pace |-> NoRate]]

\* DataFrame.join(gps): how='left', a left row is repeated for every match
JoinGps(rows, events, gps) ==
    LET Matches(k) ==
            SelectSeq(gps, LAMBDA g : RoundS(events[g].TimeISO8601) = k)
        Expand(row) ==
            LET m == Matches(row.key)
            IN  IF m = <<>> THEN <<row>>
                ELSE [j \in 1..Len(m) |-> [row EXCEPT !.gps = m[j]]]
    IN  Flatten([i \in 1..Len(rows) |-> Expand(rows[i])])

\* DataFrame.join(ibi): how='left'; the keys of ibi are unique
JoinIbi(rows, frame) ==
    LET Cells(k) ==
            IF \E r \in 1..Len(frame.index) : frame.index[r] = k
            THEN frame.cells[CHOOSE r \in 1..Len(frame.index) : frame.index[r] = k]
            ELSE [c \in 1..Len(frame.columns) |-> NaN]
    IN  [i \in 1..Len(rows) |-> [rows[i] EXCEPT !.IBI_raw = Cells(rows[i].key)]]

\* df[~df.index.duplicated(keep='first')]
DropDuplicated(rows) ==
    SelectSeq([i \in 1..Len(rows) |-> [pos |-> i, row |-> rows[i]]],
              LAMBDA p : ~\E j \in 1..(p.pos - 1) : rows[j].key = p.row.key)

RowsOf(tagged) == [i \in 1..Len(tagged) |-> tagged[i].row]

\* self.exercise_data[('baro', 'Cadence')] *= 60 (a missing value stays missing)
ScaleCadence(rows) ==
    [i \in 1..Len(rows) |->
        [rows[i] EXCEPT !.Cadence = IF @ = NaN THEN NaN ELSE @ * 60]]

\* baro, joined with gps and ibi when they hold rows, duplicated keys dropped,
\* the cadence converted
Align(events, baro, gps, frame) ==
    LET b == BaroFrame(events, baro)
        g == IF Len(gps) > 0 THEN JoinGps(b, events, gps) ELSE b
        a == IF Len(frame.index) > 0 THEN JoinIbi(g, frame) ELSE g
    IN  ScaleCadence(RowsOf(DropDuplicated(a)))

AlignedColumns(events, baro, gps, frame) ==
    (IF \E i \in Range(baro) : TRUE THEN {"baro"} ELSE {})
    \cup (IF \E i \in Range(baro) : "Speed" \in events[i].Sample
          THEN {"baro.Speed"} ELSE {})
    \cup (IF \E i \in Range(baro) : "Cadence" \in events[i].Sample
          THEN {"baro.Cadence"} ELSE {})
    \cup (IF Len(gps) > 0 THEN {"gps"} ELSE {})
    \cup (IF Len(frame.index) > 0 THEN {"IBI_raw"} ELSE {})

Keys(table) == [i \in 1..Len(table.rows) |-> table.rows[i].key]

(***************************************************************************)
(* Initial state: the object before __init__ has run.                      *)
(***************************************************************************)
Unset ==
    /\ pc = "init"
    /\ error = "none"
    /\ exercise_raw_data = "unset"
    /\ ibi_time = <<>>
    /\ ibi_values = <<>>
    /\ baro_data = <<>>
    /\ gps_data = <<>>
    /\ processed_samples = <<>>
    /\ ibi_timeindex = <<>>
    /\ ibi_1d = [index |-> <<>>, values |-> <<>>]
    /\ index_array = <<>>
    /\ duplicate_indices = <<>>
    /\ iterations = 0
    /\ ibi = [index |-> <<>>, columns |-> <<>>, cells |-> <<>>]
    /\ exercise_data = [columns |-> {}, rows |-> <<>>]
    /\ unparsed_lines = 0
    /\ unparsed_data = <<>>
    /\ spike_filtered = <<>>
    /\ ibi_1d_processed = <<>>

InitOver(recordings) ==
    /\ json_file \in recordings
    /\ mode \in Modes
    /\ mode # "suunto_json" => Len(json_file) <= 1
    /\ Unset

(***************************************************************************)
(* parse_json.                                                             *)
(***************************************************************************)
\* with open(self.json_file) ...: self.exercise_raw_data = exercise_file.read()
read_file ==
    /\ pc = "init"
    /\ exercise_raw_data' = "text"
    /\ pc' = "read"
    /\ UNCHANGED <<json_file, mode, error, ibi_time, ibi_values, baro_data, gps_data,
                   processed_samples, ibi_timeindex, ibi_1d, index_array,
                   duplicate_indices, iterations, ibi, exercise_data, unparsed_lines,
                   unparsed_data, spike_filtered, ibi_1d_processed>>

\* mode 'qs_json' loads the document; any other mode falls through both branches
parse_other_mode ==
    /\ pc = "read"
    /\ mode # "suunto_json"
    /\ exercise_raw_data' = IF mode = "qs_json" THEN "document" ELSE exercise_raw_data
    /\ pc' = "parsed"
    /\ UNCHANGED <<json_file, mode, error, ibi_time, ibi_values, baro_data, gps_data,
                   processed_samples, ibi_timeindex, ibi_1d, index_array,
                   duplicate_indices, iterations, ibi, exercise_data, unparsed_lines,
                   unparsed_data, spike_filtered, ibi_1d_processed>>

\* json.loads(...)['Samples'] and the for loop over the events
classify ==
    /\ pc = "read"
    /\ mode = "suunto_json"
    /\ exercise_raw_data' = "samples"
    /\ ibi_time' = [i \in 1..Len(IbiIndices(json_file)) |->
                       json_file[IbiIndices(json_file)[i]].TimeISO8601]
    /\ ibi_values' = [i \in 1..Len(IbiIndices(json_file)) |->
                         json_file[IbiIndices(json_file)[i]].IBI]
    /\ baro_data' = BaroIndices(json_file)
    /\ gps_data' = GpsIndices(json_file)
    /\ processed_samples' = ProcessedSamples(json_file)
    /\ pc' = "classified"
    /\ UNCHANGED <<json_file, mode, error, ibi_timeindex, ibi_1d, index_array,
                   duplicate_indices, iterations, ibi, exercise_data, unparsed_lines,
                   unparsed_data, spike_filtered, ibi_1d_processed>>

\* ibi.index[0] of an empty frame raises IndexError
no_ibi_error ==
    /\ pc = "classified"
    /\ ibi_time = <<>>
    /\ error' = "IndexError"
    /\ pc' = "error"
    /\ UNCHANGED <<json_file, mode, exercise_raw_data, ibi_time, ibi_values, baro_data,
                   gps_data, processed_samples, ibi_timeindex, ibi_1d, index_array,
                   duplicate_indices, iterations, ibi, exercise_data, unparsed_lines,
                   unparsed_data, spike_filtered, ibi_1d_processed>>

\* the beat series, the slots all 1 and the first duplicate mask
reconstruct ==
    /\ pc = "classified"
    /\ ibi_time # <<>>
    /\ ibi_timeindex' = IbiTimeindex(ibi_time, ibi_values)
    /\ ibi_1d' = [index |-> [i \in 1..Len(ibi_timeindex') |->
                                <<RoundS(ibi_timeindex'[i])>>],
                  values |-> Flatten(ibi_values)]
    /\ index_array' = [i \in 1..Len(ibi_timeindex') |-> 1]
    /\ duplicate_indices' =
           Duplicated(ibi_1d'.index, index_array')
    /\ pc' = "slots"
    /\ UNCHANGED <<json_file, mode, error, exercise_raw_data, ibi_time, ibi_values,
                   baro_data, gps_data, processed_samples, iterations, ibi, exercise_data,
                   unparsed_lines, unparsed_data, spike_filtered, ibi_1d_processed>>

\* one pass of: while True in duplicate_indices
slot_pass ==
    /\ pc = "slots"
    /\ TRUE \in Range(duplicate_indices)
    /\ index_array' = AddMask(index_array, duplicate_indices)
    /\ duplicate_indices' = Duplicated(ibi_1d.index, index_array')
    /\ iterations' = iterations + 1
    /\ UNCHANGED <<json_file, mode, pc, error, exercise_raw_data, ibi_time, ibi_values,
                   baro_data, gps_data, processed_samples, ibi_timeindex, ibi_1d, ibi,
                   exercise_data, unparsed_lines, unparsed_data, spike_filtered,
                   ibi_1d_processed>>

\* the pivot, the joins, the duplicate removal and the unparsed events
pivot_and_join ==
    /\ ibi_1d' = [index |-> [i \in 1..Len(index_array) |->
                                <<ibi_1d.index[i][1], index_array[i]>>],
                  values |-> ibi_1d.values]
    /\ ibi' = Unstack(ibi_1d'.index, ibi_1d'.values)
    /\ exercise_data' =
           [columns |-> AlignedColumns(json_file, baro_data, gps_data, ibi'),
            rows |-> Align(json_file, baro_data, gps_data, ibi')]
    /\ unparsed_lines' = UnparsedLines(json_file, processed_samples)
    /\ unparsed_data' = UnparsedData(json_file, processed_samples)
    /\ pc' = "parsed"
    /\ UNCHANGED <<json_file, mode, error, exercise_raw_data, ibi_time, ibi_values,
                   baro_data, gps_data, processed_samples, ibi_timeindex, index_array,
                   duplicate_indices, iterations, spike_filtered, ibi_1d_processed>>

\* variant: the loop is left although duplicated keys remain
align_with_duplicates ==
    /\ pc = "slots"
    /\ pivot_and_join

\* the loop is left when no key is duplicated any more
align ==
    /\ pc = "slots"
    /\ TRUE \notin Range(duplicate_indices)
    /\ pivot_and_join

ParseNext ==
    \/ read_file
    \/ parse_other_mode
    \/ classify
    \/ no_ibi_error
    \/ reconstruct
    \/ slot_pass
    \/ align

InitParse == InitOver(StreamRecordings \cup BurstRecordings \cup ThresholdRecordings)

SpecParse == InitParse /\ [][ParseNext]_vars

(***************************************************************************)
(* filter_ibi and smooth_ibi.                                              *)
(***************************************************************************)
\* filtering(..., 'spike_filter', ...) of pyPreprocessing: the library is not part
\* of the repository; a value it rejects becomes missing, any set of values may be
SpikeFilterOutcomes(s) ==
    {[i \in 1..Len(s) |-> IF i \in m THEN NaN ELSE s[i]] : m \in SUBSET (1..Len(s))}

\* variant: >= in place of >
MaximumFilterInclusive(s) ==
    [i \in 1..Len(s) |->
        IF s[i] # NaN /\ s[i] >= maximum_threshold THEN NaN ELSE s[i]]

\* ibi_1d_processed[ibi_1d_processed > maximum_threshold] = np.nan
MaximumFilter(s) ==
    [i \in 1..Len(s) |->
        IF s[i] # NaN /\ s[i] > maximum_threshold THEN NaN ELSE s[i]]

\* ibi_1d_processed[ibi_1d_processed < minimum_threshold] = np.nan
MinimumFilter(s) ==
    [i \in 1..Len(s) |->
        IF s[i] # NaN /\ s[i] < minimum_threshold THEN NaN ELSE s[i]]

median_window == 5

\* scipy's boundary mode 'reflect': d c b a | a b c d | d c b a
Reflect(j, n) ==
    LET m == (j - 1) % (2 * n)
    IN  IF m < n THEN m + 1 ELSE 2 * n - m

Window(s, i) ==
    [k \in 1..median_window |->
        s[Reflect(i + k - 1 - (median_window \div 2), Len(s))]]

\* The median of a window of numbers.  A window that holds a missing value is
\* ranked with comparisons that are all false: which of its elements comes out
\* depends on the library build, so any of them may.
MedianChoices(s, i) ==
    LET w == Window(s, i)
    IN  IF NaN \in Range(w) THEN Range(w)
        ELSE {SortSeq(w, LAMBDA a, b : a < b)[(median_window \div 2) + 1]}

\* median_filter(self.ibi_1d_processed, size=median_window)
MedianFilterOutcomes(s) ==
    {f \in [1..Len(s) -> Range(s)] : \A i \in 1..Len(s) : f[i] \in MedianChoices(s, i)}

(***************************************************************************)
(* replace_processed_ibi and the derived columns.                          *)
(***************************************************************************)
\* variant: how='inner', the rows without a beat are dropped
JoinProcessedInner(rows, filtered) ==
    LET Cells(k) ==
            filtered.cells[CHOOSE r \in 1..Len(filtered.index) : filtered.index[r] = k]
        kept == SelectSeq(rows, LAMBDA row :
                    \E r \in 1..Len(filtered.index) : filtered.index[r] = row.key)
    IN  [i \in 1..Len(kept) |-> [kept[i] EXCEPT !.IBI_processed = Cells(kept[i].key)]]

\* variant: the filtered columns are written under the label of the raw columns
JoinProcessedOverRaw(rows, filtered) ==
    LET Cells(k) ==
            IF \E r \in 1..Len(filtered.index) : filtered.index[r] = k
            THEN filtered.cells[CHOOSE r \in 1..Len(filtered.index) :
                                    filtered.index[r] = k]
            ELSE [c \in 1..Len(filtered.columns) |-> NaN]
    IN  [i \in 1..Len(rows) |->
            [rows[i] EXCEPT !.IBI_raw = Cells(rows[i].key),
                            !.IBI_processed = Cells(rows[i].key)]]

\* exercise_data.join(filtered_data): how='left'; the keys of filtered_data are unique
JoinProcessed(rows, filtered) ==
    LET Cells(k) ==
            IF \E r \in 1..Len(filtered.index) : filtered.index[r] = k
            THEN filtered.cells[CHOOSE r \in 1..Len(filtered.index) :
                                    filtered.index[r] = k]
            ELSE [c \in 1..Len(filtered.columns) |-> NaN]
    IN  [i \in 1..Len(rows) |-> [rows[i] EXCEPT !.IBI_processed = Cells(rows[i].key)]]

\* 60000/np.mean(cells, axis=1): the mean skips missing cells; the quotient is
\* kept as the fraction <<numerator, denominator>>
HeartRate(cells) ==
    LET present == SelectSeq(cells, LAMBDA v : v # NaN)
    IN  IF present = <<>> THEN NoRate
        ELSE <<60000 * Millisecond * Len(present), SumSeq(present)>>

\* 1/Speed*1000/60, as a fraction
Pace(events, row) ==
    IF row.baro = 0 \/ events[row.baro].Speed = NaN THEN NoRate
    ELSE <<1000, 60 * events[row.baro].Speed>>

DerivedMetrics(events, table) ==
    [columns |-> table.columns \cup {"heart_rate"}
                 \cup (IF "baro.Speed" \in table.columns THEN {"gps.Pace"} ELSE {}),
     rows |-> [i \in 1..Len(table.rows) |->
                  [table.rows[i] EXCEPT
                      !.heart_rate_raw = HeartRate(table.rows[i].IBI_raw),
                      !.heart_rate_filtered = HeartRate(table.rows[i].IBI_processed),
                      !.Pace = IF "baro.Speed" \in table.columns
                               THEN Pace(events, table.rows[i]) ELSE NoRate]]]

(***************************************************************************)
(* __init__ after parse_json.                                              *)
(***************************************************************************)
\* self.ibi_1d.copy() when parse_json set no ibi_1d: AttributeError
attribute_error ==
    /\ pc = "parsed"
    /\ mode # "suunto_json"
    /\ error' = "AttributeError"
    /\ pc' = "error"
    /\ UNCHANGED <<json_file, mode, exercise_raw_data, ibi_time, ibi_values, baro_data,
                   gps_data, processed_samples, ibi_timeindex, ibi_1d, index_array,
                   duplicate_indices, iterations, ibi, exercise_data, unparsed_lines,
                   unparsed_data, spike_filtered, ibi_1d_processed>>

\* self.ibi_1d_processed = self.ibi_1d.copy()
copy_ibi ==
    /\ pc = "parsed"
    /\ mode = "suunto_json"
    /\ ibi_1d_processed' = ibi_1d.values
    /\ pc' = "copied"
    /\ UNCHANGED <<json_file, mode, error, exercise_raw_data, ibi_time, ibi_values,
                   baro_data, gps_data, processed_samples, ibi_timeindex, ibi_1d,
                   index_array, duplicate_indices, iterations, ibi, exercise_data,
                   unparsed_lines, unparsed_data, spike_filtered>>

\* self.filter_ibi(maximum=True, minimum=True, lowpass=True, std_factor=2)
filter_ibi ==
    /\ pc = "copied"
    /\ \E out \in SpikeFilterOutcomes(ibi_1d_processed) :
          /\ spike_filtered' = out
          /\ ibi_1d_processed' = MinimumFilter(MaximumFilter(out))
    /\ pc' = "filtered"
    /\ UNCHANGED <<json_file, mode, error, exercise_raw_data, ibi_time, ibi_values,
                   baro_data, gps_data, processed_samples, ibi_timeindex, ibi_1d,
                   index_array, duplicate_indices, iterations, ibi, exercise_data,
                   unparsed_lines, unparsed_data>>

\* self.smooth_ibi(median=True)
smooth_ibi ==
    /\ pc = "filtered"
    /\ ibi_1d_processed' \in MedianFilterOutcomes(ibi_1d_processed)
    /\ pc' = "smoothed"
    /\ UNCHANGED <<json_file, mode, error, exercise_raw_data, ibi_time, ibi_values,
                   baro_data, gps_data, processed_samples, ibi_timeindex, ibi_1d,
                   index_array, duplicate_indices, iterations, ibi, exercise_data,
                   unparsed_lines, unparsed_data, spike_filtered>>

\* self.replace_processed_ibi(self.ibi_1d_processed)
replace_processed_ibi ==
    /\ pc = "smoothed"
    /\ exercise_data' =
           [columns |-> exercise_data.columns \cup {"IBI_processed"},
            rows |-> JoinProcessed(exercise_data.rows,
                                   Unstack(ibi_1d.index, ibi_1d_processed))]
    /\ pc' = "replaced"
    /\ UNCHANGED <<json_file, mode, error, exercise_raw_data, ibi_time, ibi_values,
                   baro_data, gps_data, processed_samples, ibi_timeindex, ibi_1d,
                   index_array, duplicate_indices, iterations, ibi, unparsed_lines,
                   unparsed_data, spike_filtered, ibi_1d_processed>>

\* the columns heart_rate raw and filtered, and gps Pace when a Speed column exists
derived_metrics ==
    /\ pc = "replaced"
    /\ exercise_data' = DerivedMetrics(json_file, exercise_data)
    /\ pc' = "done"
    /\ UNCHANGED <<json_file, mode, error, exercise_raw_data, ibi_time, ibi_values,
                   baro_data, gps_data, processed_samples, ibi_timeindex, ibi_1d,
                   index_array, duplicate_indices, iterations, ibi, unparsed_lines,
                   unparsed_data, spike_filtered, ibi_1d_processed>>

Next ==
    \/ ParseNext
    \/ attribute_error
    \/ copy_ibi
    \/ filter_ibi
    \/ smooth_ibi
    \/ replace_processed_ibi
    \/ derived_metrics

Init == InitOver(StreamRecordings \cup ThresholdRecordings)

Spec == Init /\ [][Next]_vars

(***************************************************************************)
(* Properties.                                                             *)
(***************************************************************************)
Parsed == pc = "parsed" /\ mode = "suunto_json"
AfterParse ==
    /\ mode = "suunto_json"
    /\ pc \in {"parsed", "copied", "filtered", "smoothed", "replaced", "done"}

BaroSeconds == {RoundS(json_file[i].TimeISO8601) : i \in Range(baro_data)}
GpsSeconds == {RoundS(json_file[i].TimeISO8601) : i \in Range(gps_data)}
BeatSeconds == {RoundS(ibi_timeindex[i]) : i \in 1..Len(ibi_timeindex)}

\* positions, in the beat series, of the first and the last beat of burst k
FirstBeat(k) == SumSeq([j \in 1..(k - 1) |-> Len(ibi_values[j])]) + 1
LastBeat(k) == SumSeq([j \in 1..k |-> Len(ibi_values[j])])

\* number of earlier beats in the same rounded second
RankInSecond(i) ==
    Cardinality({j \in 1..(i - 1) : RoundS(ibi_timeindex[j]) = RoundS(ibi_timeindex[i])})

NoRepeat(s) == \A i, j \in 1..Len(s) : i # j => s[i] # s[j]

\* C1: after parse_json the row keys of exercise_data are the union of the
\* rounded seconds of the barometric stream, the GPS stream and the beat series.
C1_RowKeysAreUnion ==
    Parsed => Range(Keys(exercise_data)) = BaroSeconds \cup GpsSeconds \cup BeatSeconds

\* C2: for every burst, the timestamp (before rounding) of the beat of its last
\* interval is the burst's own timestamp.
C2_LastBeatAtBurstTimestamp ==
    Parsed => \A k \in 1..Len(ibi_values) : ibi_timeindex[LastBeat(k)] = ibi_time[k]

\* C3 as stated: the first beat of a burst is at burst_timestamp minus the sum of
\* all intervals of the burst.
C3_FirstBeatAtBurstStart ==
    Parsed => \A k \in 1..Len(ibi_values) :
                  ibi_timeindex[FirstBeat(k)] = ibi_time[k] - SumSeq(ibi_values[k])

\* C3 amended: the first beat of a burst lies before the burst's last beat by the
\* sum of the intervals after the first; for the first burst that is
\* burst_timestamp - sum(intervals) + first interval.
C3_FirstBeatBeforeLastBeat ==
    Parsed =>
        /\ \A k \in 1..Len(ibi_values) :
              ibi_timeindex[FirstBeat(k)] =
                  ibi_timeindex[LastBeat(k)] - SumSeq(Tail(ibi_values[k]))
        /\ ibi_timeindex[1] = ibi_time[1] - SumSeq(ibi_values[1]) + ibi_values[1][1]

C3_Witness ==
    /\ Parsed
    /\ Len(ibi_values) >= 2
    /\ Len(ibi_values[1]) >= 2
    /\ Len(ibi_values[2]) >= 2

\* C4: after slot assignment every (second, slot) key is unique, every beat is
\* in exactly one cell of the pivoted matrix, and the matrix has one row per
\* distinct rounded second.
C4_SlotsUniqueAndBeatsKept ==
    Parsed =>
        /\ NoRepeat(ibi_1d.index)
        /\ \A i \in 1..Len(ibi_1d.values) :
              \E r \in 1..Len(ibi.index), c \in 1..Len(ibi.columns) :
                  /\ <<ibi.index[r], ibi.columns[c]>> = ibi_1d.index[i]
                  /\ ibi.cells[r][c] = ibi_1d.values[i]
        /\ SumSeq([r \in 1..Len(ibi.index) |->
                      Len(SelectSeq(ibi.cells[r], LAMBDA v : v # NaN))])
               = Len(Flatten(ibi_values))
        /\ NoRepeat(ibi.index)
        /\ Range(ibi.index) = BeatSeconds

C4_Witness ==
    /\ Parsed
    /\ iterations >= 2
    /\ Cardinality(BeatSeconds) >= 2

\* C5: unparsed_lines is the number of events minus the number of distinct
\* consumed indices, equals the size of unparsed_data and is never negative.
C5_UnparsedCount ==
    Parsed =>
        /\ unparsed_lines = Len(json_file) - Cardinality(Range(processed_samples))
        /\ unparsed_lines = Len(unparsed_data)
        /\ unparsed_lines >= 0

\* C6: with an unrecognized mode the constructor fails before the file is read.
C6_UnsupportedModeFailsAtEntry ==
    (pc = "error" /\ mode \notin {"suunto_json", "qs_json"})
        => exercise_raw_data = "unset"

\* C7: the threshold steps of filter_ibi keep an interval equal to a threshold
\* and every interval between the thresholds, and replace by missing every
\* interval above the maximum or below the minimum threshold.
C7_ThresholdBoundaries ==
    pc = "filtered" =>
        \A i \in 1..Len(spike_filtered) :
            LET x == spike_filtered[i]
                y == ibi_1d_processed[i]
            IN  /\ x = maximum_threshold => y = x
                /\ x = minimum_threshold => y = x
                /\ (x # NaN /\ x > maximum_threshold) => y = NaN
                /\ (x # NaN /\ x < minimum_threshold) => y = NaN
                /\ (x # NaN /\ minimum_threshold <= x /\ x <= maximum_threshold)
                       => y = x

C7_Witness ==
    /\ pc = "filtered"
    /\ \E i, j \in 1..Len(spike_filtered) :
          /\ spike_filtered[i] = maximum_threshold + 1
          /\ ibi_1d_processed[i] = NaN
          /\ spike_filtered[j] = minimum_threshold
          /\ ibi_1d_processed[j] = minimum_threshold

\* C8: the row keys fixed by parse_json hold no duplicate, and no later stage
\* changes the sequence of row keys.
C8_RowKeysFixed ==
    /\ [](AfterParse => NoRepeat(Keys(exercise_data)))
    /\ [][AfterParse => Keys(exercise_data') = Keys(exercise_data)]_vars

C8_Witness ==
    /\ pc = "done"
    /\ Len(baro_data) > Len(exercise_data.rows)
    /\ "gps.Pace" \in exercise_data.columns
    /\ "IBI_processed" \in exercise_data.columns

RawColumns(table) == [i \in 1..Len(table.rows) |-> table.rows[i].IBI_raw]

\* C9: after parse_json the raw IBI series and the IBI_raw columns never
\* change: filter_ibi, smooth_ibi and replace_processed_ibi write only the
\* processed series and the IBI_processed columns.
C9_RawUntouched ==
    /\ [](AfterParse => ibi_1d.values = Flatten(ibi_values))
    /\ [][AfterParse =>
            /\ ibi_1d' = ibi_1d
            /\ RawColumns(exercise_data') = RawColumns(exercise_data)]_vars

C9_Witness ==
    /\ pc = "done"
    /\ \E i \in 1..Len(ibi_1d.values) :
          /\ ibi_1d.values[i] > maximum_threshold
          /\ spike_filtered[i] = ibi_1d.values[i]
    /\ \E r \in 1..Len(exercise_data.rows) :
          exercise_data.rows[r].IBI_raw # exercise_data.rows[r].IBI_processed

\* C10 as stated: the loop ends with slot = index within the second, from 0.
C10_SlotsFromZero ==
    Parsed => \A i \in 1..Len(index_array) : index_array[i] = RankInSecond(i)

\* C10 amended: the loop terminates (it makes fewer passes than there are beats),
\* and then the slot of a beat is 1 plus the number of earlier beats in its
\* rounded second: the first beat of a second gets slot 1, the second slot 2.
C10_SlotsFromOne ==
    /\ pc = "slots" => iterations < Len(index_array)
    /\ Parsed => \A i \in 1..Len(index_array) : index_array[i] = 1 + RankInSecond(i)

C10_Witness ==
    /\ Parsed
    /\ \E i \in 1..Len(index_array) : index_array[i] = 3

====
